---- MODULE Spec2Model ----
(***************************************************************************)
(* Model of the real-time synchronisation core of the DDJ-FLX6 logger:     *)
(*   - the resilient client session, connectWS        (src/src/ws.js)      *)
(*   - the room relay, wss.on('connection', ...)      (src/server/server.js*)
(*     second, presence-aware revision, lines 340-723)                     *)
(* The two halves share no state; each has its own specification.          *)
(***************************************************************************)
EXTENDS Integers, Sequences, FiniteSets, TLC

(***************************************************************************)
(* Bounds of the model                                                     *)
(***************************************************************************)
MaxTransports == 6      \* WebSocket objects one session may create
MaxFrames == 2          \* frames the caller submits through sendRaw/send
MaxPings == 1           \* heartbeat ticks that are let through
MaxProbeTransports == 31 \* WebSocket objects of a session that never gets through

(***************************************************************************)
(* Program constants of ws.js                                              *)
(***************************************************************************)
PATH_CANDIDATES == <<"", "/ws", "/socket", "/socket/websocket", "/relay">>
RECONNECT_BASE_MS == 1000
RECONNECT_MAX_MS == 10000

Min(a, b) == IF a <= b THEN a ELSE b

RECURSIVE Pow2(_)
Pow2(n) == IF n = 0 THEN 1 ELSE 2 * Pow2(n - 1)

VARIABLES
  role,               \* ws.js: role of this session, 'host' or 'viewer'
  chosen,             \* ws.js: remembered good candidate (index), 0 = null
  reconnectAttempts,  \* ws.js: consecutive failed attempts
  closedByUs,         \* ws.js: client.close() was called
  sendQueue,          \* ws.js: frames queued while not OPEN
  socket,             \* ws.js: client.socket (transport id), 0 = undefined
  pingTimer,          \* ws.js: transport the heartbeat interval is bound to, 0 = none
  status,             \* last string handed to onStatus
  dialTimer,          \* a setTimeout(dial, wait) is pending
  wait,               \* delay of the last scheduled dial
  cur,                \* the most recently created WebSocket object
  nTrans,             \* number of WebSocket objects created so far
  nSubmitted,         \* number of frames the caller has submitted
  nPings,             \* number of heartbeat ticks so far
  wire,               \* every frame handed to ws.send on an OPEN transport, in order
  ret                 \* what the last call of send/sendMap/sendRaw returned ("none": no call yet)

svars == <<role, chosen, reconnectAttempts, closedByUs, sendQueue, socket,
           pingTimer, status, dialTimer, wait, cur, nTrans, nSubmitted,
           nPings, wire, ret>>

VARIABLES
  lastIn,   \* ws.js: the frame the last 'message' event delivered
  calls,    \* ws.js: callbacks the last 'message' event invoked, in order
  lastInOn, \* ws.js: the transport the last 'message' event came on, 0 = none
  jogIn,    \* board.js: the 7-bit value handed to decodeRelative7
  jogOut    \* board.js: the step decodeRelative7 returned for jogIn

mvars == <<lastIn, calls, lastInOn>>
jvars == <<jogIn, jogOut>>

VARIABLES
  tries,        \* bootstrap-viewer.js: polls of the reattach interval so far
  ackInstalled, \* bootstrap-viewer.js: transport with __probeAckInstalled, 0 = none
  nProbes,      \* probe frames the connected transport has received
  nAcks         \* probe:ack frames the viewer page has sent

pvars == <<tries, ackInstalled, nProbes, nAcks>>

VARIABLES
  dom,      \* engine/ops.js: the elements of the document, by id
  orig,     \* the attributes each element had when the page loaded
  skipped,  \* engine/ops.js: ops of the last batch the loop passed over
  applied   \* engine/ops.js: ops of the last batch that ran lightOn or lightOff

evars == <<dom, orig, skipped, applied>>

ovars == <<mvars, jvars, pvars, evars>>

(***************************************************************************)
(* Relay (server.js).  A connection id is a slot of wss.clients: it holds  *)
(* one accepted WebSocket at a time, and a new one after that has closed.  *)
(***************************************************************************)
MaxConns == 2           \* connections open at the same time
MaxOpsLog == 2          \* ops batches hosts send through the relay in one run
MaxSeq == 2             \* ops batches one host page sends

ConnIds == 1..MaxConns
Rooms == {"default", "A"}
Roles == {"host", "viewer"}
Targets == {"pad_1", "pad_2"}
Intensities == {5, 10}  \* tenths: 0.5 and 1.0

VARIABLES
  conn,     \* per WebSocket: readyState, ws.role, ws.room
  rooms,    \* rooms Map: roomName -> { hosts, viewers, lastMap }
  out,      \* frames the last handler sent, per recipient, in order
  last,     \* the event the last handler was run for
  opsLog,   \* per room, the ops batches hosts have sent through the relay
  hostSeq,  \* bootstrap-host.js: the seq counter of the host page behind a connection
  roomSeq,  \* per room, the seq of the last ops frame relayed to its viewers
  acceptedMap, \* per room, the last map the relay accepted, restarts included
  allowEnv, \* origins named by the ALLOWED_ORIGIN / ALLOWED_ORIGINS environment
  isAlive,  \* server.js: ws.isAlive of each WebSocket
  pinged,   \* per WebSocket, the timers whose protocol ping awaits its pong, oldest first
  roomHb    \* server.js: ENABLE_ROOM_HEARTBEAT (ROOM_HEARTBEAT === '1')

hbvars == <<isAlive, pinged, roomHb>>

\* what the connection, message and close handlers leave as it is while no
\* heartbeat has run
aux == <<opsLog, hostSeq, roomSeq, acceptedMap, allowEnv, hbvars>>

rvars == <<conn, rooms, out, last, aux>>

vars == <<svars, rvars, ovars>>

(***************************************************************************)
(* Frames.  k is the frame's type tag, n numbers the caller's frames.      *)
(***************************************************************************)
Frame(k, n) == [k |-> k, n |-> n]
Hello == Frame("hello", 0)
Join == Frame("join", 0)
MapGet == Frame("map:get", 0)
Ping == Frame("ping", 0)
Raw(n) == Frame("raw", n)
MidiLike(n) == Frame("midi_like", n)

OnWire(t, f) == [t |-> t, f |-> f]

\* new WebSocket(url): a transport in state CONNECTING.  probe: tryOne's
\* listeners are attached; wired: wireSocket's listeners are attached.
NewSocket(id, cand, probe, wired) ==
  [id |-> id, state |-> "connecting", cand |-> cand, probe |-> probe,
   wired |-> wired, settled |-> FALSE, settleTimer |-> FALSE]

IsOpen(ws) == ws.state = "open"

\* ws.send(payload) on transport ws: a frame reaches the wire only when OPEN
\* (a send on a CLOSING or CLOSED socket is discarded by the browser).
WsSend(w, ws, fs) ==
  IF IsOpen(ws) THEN w \o [i \in 1..Len(fs) |-> OnWire(ws.id, fs[i])] ELSE w

\* socketOrQueue: the pair <<wire, sendQueue>> after submitting payload
socketOrQueue(w, q, sock, ws, payload) ==
  IF sock # 0 /\ IsOpen(ws)
    THEN <<WsSend(w, ws, <<payload>>), q>>
    ELSE <<w, Append(q, payload)>>

\* a flush that writes the queue and keeps its frames
flushQueue_KeepQueue(w, q, sock, ws) ==
  IF sock = 0 \/ ~IsOpen(ws) THEN <<w, q>>
  ELSE IF Len(q) = 0 THEN <<w, q>>
  ELSE <<WsSend(w, ws, q), q>>

\* flushQueue: the pair <<wire, sendQueue>> after the flush
flushQueue(w, q, sock, ws) ==
  IF sock = 0 \/ ~IsOpen(ws) THEN <<w, q>>
  ELSE IF Len(q) = 0 THEN <<w, q>>
  ELSE <<WsSend(w, ws, q), <<>>>>

\* the frames the wired 'open' listener sends before the flush
HandshakeFrames(r) ==
  IF r = "viewer" THEN <<Hello, Join, MapGet>> ELSE <<Hello, Join>>

\* a backoff without the cap
BackoffWait_NoCap(n) == RECONNECT_BASE_MS * Pow2(n)

\* Math.min(RECONNECT_BASE_MS * 2^attempts, RECONNECT_MAX_MS)
BackoffWait(n) == Min(RECONNECT_BASE_MS * Pow2(n), RECONNECT_MAX_MS)

\* setStatus('closed'); wait = ...; reconnectAttempts++; setTimeout(dial, wait)
ScheduleRetry ==
  /\ wait' = BackoffWait(reconnectAttempts)
  /\ reconnectAttempts' = reconnectAttempts + 1
  /\ status' = "retrying"
  /\ dialTimer' = TRUE

(***************************************************************************)
(* Initial state: connectWS has run setStatus('connecting'); dial(), which *)
(* with chosen = null starts tryOne(0).                                    *)
(***************************************************************************)
InitSession ==
  /\ role \in {"host", "viewer"}
  /\ chosen = 0
  /\ reconnectAttempts = 0
  /\ closedByUs = FALSE
  /\ sendQueue = <<>>
  /\ socket = 0
  /\ pingTimer = 0
  /\ status = "connecting"
  /\ dialTimer = FALSE
  /\ wait = 0
  /\ cur = NewSocket(1, 1, TRUE, FALSE)
  /\ nTrans = 1
  /\ nSubmitted = 0
  /\ nPings = 0
  /\ wire = <<>>
  /\ ret = "none"

(***************************************************************************)
(* client.sendRaw(obj): available to both roles                            *)
(***************************************************************************)
SendRaw ==
  /\ nSubmitted < MaxFrames
  /\ nSubmitted' = nSubmitted + 1
  /\ LET r == socketOrQueue(wire, sendQueue, socket, cur, Raw(nSubmitted + 1))
     IN wire' = r[1] /\ sendQueue' = r[2]
  /\ ret' = "true"
  /\ UNCHANGED <<rvars, ovars>>
  /\ UNCHANGED <<role, chosen, reconnectAttempts, closedByUs, socket,
                 pingTimer, status, dialTimer, wait, cur, nTrans, nPings>>

(***************************************************************************)
(* client.send(info) / client.sendMap(arr): host only, viewers get false   *)
(***************************************************************************)
\* senders without the role test
HostOnly_AnyRole(r) == TRUE

\* if (role !== 'host') return false;
HostOnly(r) == r = "host"

Send ==
  /\ IF HostOnly(role)
       THEN /\ nSubmitted < MaxFrames
            /\ nSubmitted' = nSubmitted + 1
            /\ LET r == socketOrQueue(wire, sendQueue, socket, cur,
                                      MidiLike(nSubmitted + 1))
               IN wire' = r[1] /\ sendQueue' = r[2]
            /\ ret' = "true"
       ELSE /\ ret' = "false"
            /\ UNCHANGED <<nSubmitted, wire, sendQueue>>
  /\ UNCHANGED <<rvars, ovars>>
  /\ UNCHANGED <<role, chosen, reconnectAttempts, closedByUs, socket,
                 pingTimer, status, dialTimer, wait, cur, nTrans, nPings>>

(***************************************************************************)
(* tryOne(index, onDone) once index is known to name a candidate: creates  *)
(* the probe transport.  NextIndex is the index tried after a failure.     *)
(***************************************************************************)
\* a tryOne that retries the candidate that has just failed
NextIndex_Same(i) == i

NextIndex(i) == i + 1

TryOneStart(i) ==
  /\ status' = "connecting"
  /\ cur' = NewSocket(nTrans + 1, i, TRUE, FALSE)
  /\ nTrans' = nTrans + 1

\* tryOne(index) for any index: past the list it reports onDone(null),
\* which schedules a retry of the whole probe sequence.
TryOne(i) ==
  IF i > Len(PATH_CANDIDATES)
    THEN /\ ScheduleRetry
         /\ cur' = [cur EXCEPT !.state = "closed", !.settleTimer = FALSE]
         /\ UNCHANGED nTrans
    ELSE /\ TryOneStart(i)
         /\ UNCHANGED <<reconnectAttempts, dialTimer, wait>>

(***************************************************************************)
(* dial(): reuse the chosen endpoint, else probe from the first candidate  *)
(***************************************************************************)
\* a dial that forgets the chosen endpoint and probes again
Dial_Reprobe ==
  /\ TryOneStart(1)
  /\ UNCHANGED socket

Dial ==
  IF chosen # 0
    THEN /\ cur' = NewSocket(nTrans + 1, chosen, FALSE, TRUE)
         /\ nTrans' = nTrans + 1
         /\ socket' = nTrans + 1
         /\ UNCHANGED status
    ELSE /\ TryOneStart(1)
         /\ UNCHANGED socket

\* the timer set by setTimeout(()=> dial(), wait) fires; max bounds the
\* number of WebSocket objects of the run
BackoffFireWithin(max) ==
  /\ dialTimer
  /\ nTrans < max
  /\ dialTimer' = FALSE
  /\ Dial
  /\ UNCHANGED <<rvars, ovars>>
  /\ UNCHANGED <<role, ret, chosen, reconnectAttempts, closedByUs, sendQueue,
                 pingTimer, wait, nSubmitted, nPings, wire>>

BackoffFire == BackoffFireWithin(MaxTransports)

(***************************************************************************)
(* 'open' event of the current transport                                   *)
(***************************************************************************)
\* tryOne's listener: one hello, then the settle timer is armed
ProbeOnOpen ==
  /\ wire' = WsSend(wire, [cur EXCEPT !.state = "open"], <<Hello>>)
  /\ cur' = [cur EXCEPT !.state = "open", !.settleTimer = TRUE]
  /\ UNCHANGED <<status, reconnectAttempts, sendQueue, pingTimer>>

\* wireSocket's listener: connected, counter reset, hello, join, (map:get),
\* flushQueue, startPing
WiredOnOpen ==
  LET ws == [cur EXCEPT !.state = "open"]
      w1 == WsSend(wire, ws, HandshakeFrames(role))
      r == flushQueue(w1, sendQueue, socket, ws)
  IN /\ status' = "connected"
     /\ reconnectAttempts' = 0
     /\ wire' = r[1]
     /\ sendQueue' = r[2]
     /\ pingTimer' = ws.id
     /\ cur' = ws

WsOpen ==
  /\ cur.state = "connecting"
  /\ IF cur.wired THEN WiredOnOpen ELSE ProbeOnOpen
  /\ UNCHANGED <<rvars, ovars>>
  /\ UNCHANGED <<role, ret, chosen, closedByUs, socket, dialTimer, wait, nTrans,
                 nSubmitted, nPings>>

(***************************************************************************)
(* the settle timer of tryOne fires: onDone({ws,url}) in dial()            *)
(***************************************************************************)
\* wireSocket(ws, url) on a transport that is already open: the listeners
\* are attached, client.socket is set; its 'open' listener never runs.
WireWinner ==
  /\ socket' = cur.id
  /\ cur' = [cur EXCEPT !.settled = TRUE, !.settleTimer = FALSE, !.wired = TRUE]

SettleFire ==
  /\ cur.settleTimer
  /\ ~cur.settled
  /\ chosen' = cur.cand
  /\ WireWinner
  /\ status' = "connected"
  /\ UNCHANGED <<rvars, ovars>>
  /\ UNCHANGED <<role, ret, reconnectAttempts, closedByUs, sendQueue, pingTimer,
                 dialTimer, wait, nTrans, nSubmitted, nPings, wire>>

(***************************************************************************)
(* 'close' event of the current transport (peer, network, or the end of a  *)
(* close() started locally)                                                *)
(***************************************************************************)
\* tryOne's listener on a transport that has not settled
ProbeOnClose ==
  /\ TryOne(NextIndex(cur.cand))
  /\ UNCHANGED <<socket, pingTimer>>

\* wireSocket's listener
WiredOnClose ==
  /\ pingTimer' = 0
  /\ socket' = 0
  /\ cur' = [cur EXCEPT !.state = "closed", !.settleTimer = FALSE]
  /\ IF closedByUs
       THEN UNCHANGED <<status, reconnectAttempts, dialTimer, wait>>
       ELSE ScheduleRetry
  /\ UNCHANGED nTrans

WsCloseWithin(max) ==
  /\ cur.state \in {"connecting", "open", "closing"}
  /\ IF cur.wired
       THEN WiredOnClose
       ELSE /\ (NextIndex(cur.cand) > Len(PATH_CANDIDATES) \/ nTrans < max)
            /\ ProbeOnClose
  /\ UNCHANGED <<rvars, ovars>>
  /\ UNCHANGED <<role, ret, chosen, closedByUs, sendQueue, nSubmitted, nPings, wire>>

WsClose == WsCloseWithin(MaxTransports)

(***************************************************************************)
(* 'error' event: wireSocket's listener closes the transport; tryOne's     *)
(* listener leaves it to the close event                                   *)
(***************************************************************************)
\* an error listener that dials again at once instead of closing
WsError_Redial ==
  /\ cur.state \in {"connecting", "open"}
  /\ cur.wired
  /\ nTrans < MaxTransports
  /\ status' = "error"
  /\ cur' = NewSocket(nTrans + 1, cur.cand, FALSE, TRUE)
  /\ nTrans' = nTrans + 1
  /\ socket' = nTrans + 1
  /\ UNCHANGED <<rvars, ovars>>
  /\ UNCHANGED <<role, ret, chosen, reconnectAttempts, closedByUs, sendQueue,
                 pingTimer, dialTimer, wait, nSubmitted, nPings, wire>>

WsError ==
  /\ cur.state \in {"connecting", "open"}
  /\ cur.wired
  /\ status' = "error"
  /\ cur' = [cur EXCEPT !.state = "closing"]
  /\ UNCHANGED <<rvars, ovars>>
  /\ UNCHANGED <<role, ret, chosen, reconnectAttempts, closedByUs, sendQueue,
                 socket, pingTimer, dialTimer, wait, nTrans, nSubmitted,
                 nPings, wire>>

(***************************************************************************)
(* heartbeat interval of startPing(ws)                                     *)
(***************************************************************************)
PingTick ==
  /\ pingTimer # 0
  /\ nPings < MaxPings
  /\ nPings' = nPings + 1
  /\ wire' = WsSend(wire, cur, <<Ping>>)
  /\ UNCHANGED <<rvars, ovars>>
  /\ UNCHANGED <<role, ret, chosen, reconnectAttempts, closedByUs, sendQueue,
                 socket, pingTimer, status, dialTimer, wait, cur, nTrans,
                 nSubmitted>>

(***************************************************************************)
(* client.close()                                                          *)
(***************************************************************************)
ClientClose ==
  /\ ~closedByUs
  /\ closedByUs' = TRUE
  /\ pingTimer' = 0
  /\ cur' = IF socket # 0 /\ cur.state \in {"connecting", "open"}
              THEN [cur EXCEPT !.state = "closing"]
              ELSE cur
  /\ UNCHANGED <<rvars, ovars>>
  /\ UNCHANGED <<role, ret, chosen, reconnectAttempts, sendQueue, socket, status,
                 dialTimer, wait, nTrans, nSubmitted, nPings, wire>>


(***************************************************************************)
(* 'message' event of the wired transport.  An inbound frame is its type   *)
(* tag, the kind of its payload field ("none": no such field) and its map  *)
(* field (arr: Array.isArray(map)).                                        *)
(***************************************************************************)
InFrame(type, payload, isArr) == [type |-> type, payload |-> payload, arr |-> isArr]
NoFrame == InFrame("none", "none", FALSE)
Unparsable == InFrame("unparsable", "none", FALSE)

InFrames ==
  { Unparsable,
    InFrame("ops", "none", FALSE),
    InFrame("info", "obj", FALSE),
    InFrame("info", "none", FALSE),
    InFrame("midi_like", "obj", FALSE),
    InFrame("cc", "none", FALSE),
    InFrame("wrapped", "midi", FALSE),
    InFrame("map:sync", "none", TRUE),
    InFrame("map:sync", "none", FALSE),
    InFrame("map_sync", "array", FALSE),
    InFrame("presence", "none", FALSE) }

\* a listener that takes every frame for parsed
ParseOk_Always(f) == TRUE

\* try { parsed = JSON.parse(ev.data); } catch { return; }
ParseOk(f) == f.type # "unparsable"

\* looksLikeMidi(o), by the type tag of o
looksLikeMidi(type) == type \in {"cc", "noteon", "noteoff", "pitch", "midi", "midi_like", "info"}

\* the listener finds an info object to hand to onInfo
HasInfo(f) ==
  \/ f.type = "info" /\ f.payload # "none"
  \/ f.type = "midi_like" /\ f.payload # "none"
  \/ looksLikeMidi(f.type)
  \/ f.payload = "midi"

\* map handling for viewers, both shapes
HasMapForViewer(f) ==
  \/ f.type = "map:sync" /\ f.arr
  \/ f.type = "map_sync" /\ f.payload = "array"

\* a listener that surfaces the frame to onMessage before onOps
MessageCalls_OpsLast(r, f) ==
  IF ~ParseOk(f) THEN <<>>
  ELSE <<"onMessage">> \o (IF f.type = "ops" THEN <<"onOps">> ELSE <<>>)

\* the callbacks the listener invokes for frame f, in order
MessageCalls(r, f) ==
  IF ~ParseOk(f) THEN <<>>
  ELSE (IF f.type = "ops" THEN <<"onOps">> ELSE <<>>)
         \o (IF HasInfo(f) THEN <<"onInfo">> ELSE <<>>)
         \o (IF r = "viewer" /\ HasMapForViewer(f) THEN <<"applyMap">> ELSE <<>>)
         \o <<"onMessage">>

WsMessage(f) ==
  /\ cur.wired
  /\ cur.state = "open"
  /\ lastIn' = f
  /\ calls' = MessageCalls(role, f)
  /\ lastInOn' = cur.id
  /\ UNCHANGED <<svars, rvars, jvars, pvars, evars>>

\* the frames the relay sends as soon as it has accepted a connection:
\* hello, presence and, to a viewer of a room with a map, map:sync
GreetingFrames ==
  { InFrame("hello", "none", FALSE),
    InFrame("presence", "none", FALSE),
    InFrame("map:sync", "none", TRUE) }

\* a frame arrives on a transport that has tryOne's listeners only: open,
\* close and error.  No 'message' listener exists, the frame is dropped.
ProbeOnMessage(f) ==
  /\ ~cur.wired
  /\ cur.state = "open"
  /\ lastIn' = f
  /\ calls' = <<>>
  /\ lastInOn' = cur.id
  /\ UNCHANGED <<svars, rvars, jvars, pvars, evars>>

(***************************************************************************)
(* bootstrap-viewer.js: the probe:ack listener and the interval that       *)
(* installs it on client.socket                                            *)
(***************************************************************************)
MaxProbes == 2          \* probe frames the viewer page receives in one run
REATTACH_TRIES == 20    \* if (++tries > 20) return clearInterval(reattachTimer)

ProbeAck == Frame("probe:ack", 0)
ProbeFrame == InFrame("probe", "none", FALSE)

\* a tick of reattachTimer, every 500 ms until it has cleared itself
ReattachTick ==
  /\ tries <= REATTACH_TRIES
  /\ tries' = tries + 1
  /\ ackInstalled' = IF tries + 1 <= REATTACH_TRIES /\ socket # 0
                           /\ ackInstalled # socket
                        THEN socket ELSE ackInstalled
  /\ UNCHANGED <<nProbes, nAcks>>
  /\ UNCHANGED <<svars, rvars, mvars, jvars, evars>>

\* a { type:'probe', id } frame arrives on the connected transport: the
\* listener of wireSocket runs, and the probe:ack listener if the transport
\* has one
ProbeArrives ==
  /\ cur.wired
  /\ cur.state = "open"
  /\ socket = cur.id
  /\ nProbes < MaxProbes
  /\ nProbes' = nProbes + 1
  /\ lastIn' = ProbeFrame
  /\ calls' = MessageCalls(role, ProbeFrame)
  /\ lastInOn' = cur.id
  /\ IF ackInstalled = cur.id
       THEN /\ nAcks' = nAcks + 1
            /\ wire' = WsSend(wire, cur, <<ProbeAck>>)
       ELSE UNCHANGED <<nAcks, wire>>
  /\ UNCHANGED <<tries, ackInstalled>>
  /\ UNCHANGED <<rvars, jvars, evars>>
  /\ UNCHANGED <<role, chosen, reconnectAttempts, closedByUs, sendQueue,
                 socket, pingTimer, status, dialTimer, wait, cur, nTrans,
                 nSubmitted, nPings, ret>>

(***************************************************************************)
(* board.js: a relative 7-bit jog value is decoded into a step             *)
(***************************************************************************)
SevenBit == 0..127

\* a decoder that takes the value as unsigned
decodeRelative7_Unsigned(v) == v

decodeRelative7(v) ==
  IF v = 0 \/ v = 64 THEN 0
  ELSE IF v > 64 THEN v - 128 ELSE v

JogTurn(v) ==
  /\ jogIn' = v
  /\ jogOut' = decodeRelative7(v)
  /\ UNCHANGED <<svars, rvars, mvars, pvars, evars>>

(***************************************************************************)
(* engine/ops.js: the ops engine of the pages.  An element id is the       *)
(* sequence of its parts; "_" and "_x5F_" are the two spellings of an      *)
(* underscore.  "null" is an absent attribute, "undefined" an absent       *)
(* dataset entry, "" the empty string.                                     *)
(***************************************************************************)
MaxBatch == 2           \* ops in one batch handed to applyOps

PadId == <<"pad", "_x5F_", "1">>
JogId == <<"jog">>
NoEl == <<>>
DocIds == {PadId, JogId}

GLOW == "drop-shadow(0 0 6px rgba(0,234,255,0.95))"

Element(fill, opacity, filter) ==
  [fill |-> fill, opacity |-> opacity, filter |-> filter,
   prev_fill |-> "undefined", prev_op |-> "undefined",
   prev_filter |-> "undefined", lit |-> "undefined"]

Attrs(el) == [fill |-> el.fill, opacity |-> el.opacity, filter |-> el.filter]

DefaultDom ==
  [e \in DocIds |-> IF e = PadId THEN Element("null", "null", "null")
                                 ELSE Element("#333", "null", "null")]

\* the documents a page may have: the pad with or without a fill and an
\* opacity of its own
Doms ==
  {[e \in DocIds |-> IF e = PadId THEN Element(f, o, "null")
                                  ELSE Element("#333", "null", "null")] :
     f \in {"null", "none", "#333"}, o \in {"null", "0.5"}}

\* id.replace(/_x5F_/g, '_')
Decode(id) == [i \in 1..Len(id) |-> IF id[i] = "_x5F_" THEN "_" ELSE id[i]]
\* id.replace(/_/g, '_x5F_'): the underscores of an encoded part are
\* replaced as well
Encode(id) ==
  [i \in 1..Len(id) |-> IF id[i] = "_" THEN "_x5F_"
                        ELSE IF id[i] = "_x5F_" THEN "_x5F_x5F__x5F_"
                        ELSE id[i]]
IncludesEncoded(id) == \E i \in 1..Len(id) : id[i] = "_x5F_"
IncludesUnderscore(id) == \E i \in 1..Len(id) : id[i] \in {"_", "_x5F_"}

\* the ids resolveId looks up, in order
Tries(id) ==
  <<id>> \o (IF IncludesEncoded(id) THEN <<Decode(id)>> ELSE <<>>)
         \o (IF IncludesUnderscore(id) THEN <<Encode(id)>> ELSE <<>>)

\* a lookup that falls back to the pad when no id matches
resolveId_Fallback(d, id) ==
  IF id = NoEl THEN NoEl
  ELSE LET hits == SelectSeq(Tries(id), LAMBDA t : t \in DOMAIN d)
       IN IF hits = <<>> THEN PadId ELSE hits[1]

\* resolveId(id): the id of the element found, NoEl for null
resolveId(d, id) ==
  IF id = NoEl THEN NoEl
  ELSE LET hits == SelectSeq(Tries(id), LAMBDA t : t \in DOMAIN d)
       IN IF hits = <<>> THEN NoEl ELSE hits[1]

\* el.getAttribute(name) ?? ''
OrEmpty(a) == IF a = "null" THEN "" ELSE a

\* !el.dataset._prev_fill
Falsy(v) == v \in {"undefined", ""}

\* String(Math.max(0.75, Math.min(1, intensity))), intensity in tenths
Clamped(x) ==
  IF x >= 10 THEN "1"
  ELSE IF x = 9 THEN "0.9"
  ELSE IF x = 8 THEN "0.8"
  ELSE "0.75"

\* lightOn(el, intensity)
lightOn(el, intensity) ==
  LET c == IF Falsy(el.prev_fill)
             THEN [el EXCEPT !.prev_fill = OrEmpty(el.fill),
                             !.prev_op = OrEmpty(el.opacity),
                             !.prev_filter = OrEmpty(el.filter)]
             ELSE el
  IN [c EXCEPT !.opacity = Clamped(intensity),
               !.fill = IF c.fill = "none" THEN "currentColor" ELSE c.fill,
               !.filter = GLOW,
               !.lit = "1"]

\* if (p !== undefined) (p ? el.setAttribute(name, p) : el.removeAttribute(name))
Restored(a, p) == IF p = "undefined" THEN a ELSE IF p # "" THEN p ELSE "null"

\* lightOff(el)
lightOff(el) ==
  [el EXCEPT !.fill = Restored(el.fill, el.prev_fill),
             !.opacity = Restored(el.opacity, el.prev_op),
             !.filter = Restored(el.filter, el.prev_filter),
             !.prev_fill = "undefined", !.prev_op = "undefined",
             !.prev_filter = "undefined", !.lit = "undefined"]

\* an op of a batch; a target of NoEl is an absent or empty target
EOp(type, target, on, intensity) ==
  [type |-> type, target |-> target, on |-> on, intensity |-> intensity]

\* the pad by its decoded spelling, the jog, an id of no element, no target
OpTargets == {<<"pad", "_", "1">>, JogId, <<"nope">>, NoEl}

EngineOps ==
  {EOp("light", <<"pad", "_", "1">>, TRUE, x) : x \in Intensities}
    \cup {EOp("light", t, TRUE, 10) : t \in OpTargets}
    \cup {EOp("light", t, FALSE, 10) : t \in {<<"pad", "_", "1">>, JogId}}
    \cup {EOp("attr", PadId, TRUE, 10)}

RECURSIVE EBatchesOf(_)
EBatchesOf(n) ==
  IF n = 0 THEN {<<>>}
  ELSE LET shorter == EBatchesOf(n - 1)
       IN shorter \cup {Append(b, o) : b \in {x \in shorter : Len(x) = n - 1},
                                        o \in EngineOps}

\* the loop passes over the op: continue, or break out of the switch
Skips(d, op) ==
  \/ op.type # "light"
  \/ op.target = NoEl
  \/ resolveId(d, op.target) = NoEl

\* the body of the for loop of applyOps for one op
ApplyOp(d, op) ==
  IF op.type # "light" THEN d
  ELSE IF op.target = NoEl THEN d
  ELSE LET e == resolveId(d, op.target)
       IN IF e = NoEl THEN d
          ELSE IF op.on THEN [d EXCEPT ![e] = lightOn(d[e], op.intensity)]
          ELSE [d EXCEPT ![e] = lightOff(d[e])]

\* applyOps(ops): the document after the loop
RECURSIVE applyOps(_, _)
applyOps(d, ops) ==
  IF ops = <<>> THEN d ELSE applyOps(ApplyOp(d, Head(ops)), Tail(ops))

\* a page calls applyOps(ops)
ApplyOps(ops) ==
  /\ dom' = applyOps(dom, ops)
  /\ skipped' = Len(SelectSeq(ops, LAMBDA o : Skips(dom, o)))
  /\ applied' = Len(SelectSeq(ops, LAMBDA o : ~Skips(dom, o)))
  /\ UNCHANGED orig
  /\ UNCHANGED <<svars, rvars, mvars, jvars, pvars>>

(***************************************************************************)
(*                         R E L A Y  (server.js)                          *)
(***************************************************************************)
\* a mapping table as carried by map:set; arr is Array.isArray(map)
MapVal(arr, entries) == [arr |-> arr, entries |-> entries]
NullMap == MapVal(FALSE, <<>>)
EmptyMap == MapVal(TRUE, <<>>)
Map1 == MapVal(TRUE, <<"cc:1:16">>)
Map2 == MapVal(TRUE, <<"cc:1:16", "noteon:1:11">>)
NotArray == MapVal(FALSE, <<"x">>)

\* r.lastMap && Array.isArray(r.lastMap) && r.lastMap.length
HasMap(m) == m.arr /\ Len(m.entries) > 0

Op(t, on, x) == [target |-> t, on |-> on, intensity |-> x]
Ops == {Op(t, TRUE, x) : t \in Targets, x \in Intensities}
         \cup {Op(t, FALSE, 0) : t \in Targets}

\* the ops arrays hosts send: one operation per batch
Batches == {<<o>> : o \in Ops}

\* a parsed inbound message; "none" stands for an absent (falsy) field
Msg(type, mrole, mroom, map, ops) ==
  [type |-> type, role |-> mrole, room |-> mroom, map |-> map, ops |-> ops,
   seq |-> 0]
NoMsg == Msg("none", "none", "none", NullMap, <<>>)
BadFrame == Msg("unparsable", "none", "none", NullMap, <<>>)

\* hello and join frames, as the client session and other clients send them
MembershipMsgs ==
  {Msg("hello", r, "none", NullMap, <<>>) : r \in Roles \cup {"none"}}
    \cup {Msg("join", r, rm, NullMap, <<>>) :
            r \in Roles \cup {"none"}, rm \in Rooms \cup {"none"}}

\* { type:'ops', ops:[...] } frames of a host
OpsMsgs == {Msg("ops", "none", "none", NullMap, b) : b \in Batches}

\* bootstrap-host.js sendOps: msg = { type:'ops', seq: ++seq, ops }, which
\* wsClient.send wraps as { type:'midi_like', payload: msg }; the record
\* keeps the wrapper's type tag and the fields of the wrapped batch
StampedOps(b, n) ==
  [Msg("midi_like", "none", "none", NullMap, b) EXCEPT !.seq = n]

\* { type:'probe', id } of a host: no branch of the handler names it
ProbeMsgs == {Msg("probe", "none", "none", NullMap, <<>>)}

\* map, midi, ping, unknown and unparsable frames
OtherMsgs ==
  {Msg("ping", "none", "none", NullMap, <<>>)}
    \cup {Msg("map:set", "none", "none", m, <<>>) :
            m \in {EmptyMap, Map1, Map2, NotArray}}
    \cup {Msg("map:get", "none", "none", NullMap, <<>>)}
    \cup {Msg("midi", "none", "none", NullMap, <<>>)}
    \cup {Msg("custom", "none", "none", NullMap, <<>>)}
    \cup {BadFrame}

MapSetMsgs == {m \in OtherMsgs : m.type = "map:set"}
JoinMsgs == {m \in MembershipMsgs : m.type = "join"}

\* an outbound frame of the relay.  key is the frame's key field; no frame
\* server.js builds has one, so it is always "none" (absent).
RFrame(k, rm, h, v, map, payload) ==
  [k |-> k, room |-> rm, hosts |-> h, viewers |-> v, map |-> map,
   payload |-> payload, key |-> "none"]
HelloFrame == RFrame("hello", "none", 0, 0, NullMap, NoMsg)
PresenceFrame(rs, rm) ==
  RFrame("presence", rm, Cardinality(rs[rm].hosts),
         Cardinality(rs[rm].viewers), NullMap, NoMsg)
MapSyncFrame(rs, rm) == RFrame("map:sync", rm, 0, 0, rs[rm].lastMap, NoMsg)
MapAckFrame(rs, rm) ==
  RFrame("map:ack", rm, 0, Cardinality(rs[rm].viewers), NullMap, NoMsg)
MidiFrame(m, rm) == RFrame("midi", rm, 0, 0, NullMap, m)
\* broadcastToViewers wraps its payload: { type:'info', payload, room }
InfoFrame(payload, rm) == RFrame("info", rm, 0, 0, NullMap, payload)
\* the payload object handed to broadcastToViewers by map:set
MapSyncPayload(rs, rm) == Msg("map:sync", "none", rm, rs[rm].lastMap, <<>>)

NoOut == [c \in ConnIds |-> <<>>]

IsOpenConn(cn, c) == cn[c].st = "open"

\* send(ws, obj): only when readyState is OPEN
SendTo(o, cn, c, f) ==
  IF IsOpenConn(cn, c) THEN [o EXCEPT ![c] = Append(@, f)] ELSE o

\* send the same frame to every connection of the set S that is OPEN
SendAll(o, cn, S, f) ==
  [c \in ConnIds |-> IF c \in S /\ IsOpenConn(cn, c) THEN Append(o[c], f) ELSE o[c]]

\* a presence broadcast that reaches the hosts of the room only
broadcastPresence_HostsOnly(o, cn, rs, rm) ==
  SendAll(o, cn, rs[rm].hosts, PresenceFrame(rs, rm))

\* broadcastPresence(roomName)
broadcastPresence(o, cn, rs, rm) ==
  SendAll(o, cn, rs[rm].hosts \cup rs[rm].viewers, PresenceFrame(rs, rm))

\* a fan-out that does not compare client.room with the room
ViewerRecipients_AnyRoom(cn, rm, except) ==
  {c \in ConnIds : /\ c # except
                   /\ IsOpenConn(cn, c)
                   /\ cn[c].role = "viewer"}

\* the connections broadcastToViewers(room, payload, exceptWs) writes to
ViewerRecipients(cn, rm, except) ==
  {c \in ConnIds : /\ c # except
                   /\ IsOpenConn(cn, c)
                   /\ cn[c].room = rm
                   /\ cn[c].role = "viewer"}

\* broadcastToViewers(room, payload, exceptWs)
broadcastToViewers(o, cn, rm, payload, except) ==
  SendAll(o, cn, ViewerRecipients(cn, rm, except), InfoFrame(payload, rm))

\* if (ws.role === 'host') r.hosts.add(ws); else r.viewers.add(ws);
AddToRoom(rs, c, r, rm) ==
  IF r = "host"
    THEN [rs EXCEPT ![rm].hosts = @ \cup {c}]
    ELSE [rs EXCEPT ![rm].viewers = @ \cup {c}]

\* a removal that forgets the viewer set
RemoveFromRoom_HostsOnly(rs, c, rm) ==
  [rs EXCEPT ![rm].hosts = @ \ {c}]

\* prev.hosts.delete(ws); prev.viewers.delete(ws);
RemoveFromRoom(rs, c, rm) ==
  [rs EXCEPT ![rm].hosts = @ \ {c}, ![rm].viewers = @ \ {c}]

Event(ev, c, type) == [ev |-> ev, c |-> c, type |-> type]

\* a closed WebSocket leaves wss.clients; its fields are never read again.
\* A slot that holds no WebSocket yet looks the same.
ClosedConn == [st |-> "closed", role |-> "viewer", room |-> "default"]

RECURSIVE SumLen(_, _)
SumLen(f, S) ==
  IF S = {} THEN 0
  ELSE LET x == CHOOSE y \in S : TRUE IN Len(f[x]) + SumLen(f, S \ {x})
LogSize(log) == SumLen(log, Rooms)

InitRelay ==
  /\ conn = [c \in ConnIds |-> ClosedConn]
  /\ rooms = [rm \in Rooms |-> [hosts |-> {}, viewers |-> {}, lastMap |-> NullMap]]
  /\ out = NoOut
  /\ last = Event("init", 0, "none")
  /\ opsLog = [rm \in Rooms |-> <<>>]
  /\ hostSeq = [c \in ConnIds |-> 0]
  /\ roomSeq = [rm \in Rooms |-> 0]
  /\ acceptedMap = [rm \in Rooms |-> NullMap]
  /\ allowEnv = {}
  /\ isAlive = [c \in ConnIds |-> TRUE]
  /\ pinged = [c \in ConnIds |-> <<>>]
  /\ roomHb = FALSE

(***************************************************************************)
(* wss.on('connection'): an accepted connection with ?role=r&room=rm       *)
(***************************************************************************)
Connect(c, r, rm) ==
  /\ conn[c].st = "closed"
  /\ \A d \in ConnIds : d < c => conn[d].st = "open"
  /\ LET cn == [conn EXCEPT ![c] = [st |-> "open", role |-> r, room |-> rm]]
         rs == AddToRoom(rooms, c, r, rm)
         o1 == SendTo(NoOut, cn, c, HelloFrame)
         o2 == SendTo(o1, cn, c, PresenceFrame(rs, rm))
         o3 == IF r = "viewer" /\ HasMap(rs[rm].lastMap)
                 THEN SendTo(o2, cn, c, MapSyncFrame(rs, rm))
                 ELSE o2
     IN /\ conn' = cn
        /\ rooms' = rs
        /\ out' = broadcastPresence(o3, cn, rs, rm)
  /\ last' = Event("connect", c, "none")
  /\ UNCHANGED <<svars, ovars>>

\* the Origin header of a connecting client: the site, a page of another
\* site, a site named by the environment, or no header ('')
Origins == {"https://setsoutofcontext.com", "https://staging.example",
            "https://other.example", ""}
HARDCODED_ALLOWED == {"https://www.setsoutofcontext.com",
                      "https://setsoutofcontext.com"}

\* ALLOWED_ORIGINS = ENV (if any) + HARDCODED (if any)
ALLOWED_ORIGINS(env) == env \cup HARDCODED_ALLOWED
HAS_ALLOWLIST(env) == env # {} \/ HARDCODED_ALLOWED # {}

\* a guard that lets every origin in
OriginAllowed_Any(env, o) == TRUE

\* the allow-list guard.  Its legacy branch needs HAS_ALLOWLIST to be false,
\* which the hard-coded entries rule out.
OriginAllowed(env, o) ==
  IF HAS_ALLOWLIST(env) THEN o \in ALLOWED_ORIGINS(env) ELSE TRUE

\* ws.close(1008, 'origin not allowed'); return;  no listener is attached,
\* the socket joins no room and is sent nothing
Reject(c) ==
  /\ conn[c].st = "closed"
  /\ \A d \in ConnIds : d < c => conn[d].st = "open"
  /\ out' = NoOut
  /\ last' = Event("reject", c, "1008")
  /\ UNCHANGED <<conn, rooms>>
  /\ UNCHANGED <<svars, ovars>>

\* the connection handler, allow-list guard included
Connection(c, r, rm, o) ==
  IF OriginAllowed(allowEnv, o) THEN Connect(c, r, rm) ELSE Reject(c)

(***************************************************************************)
(* ws.on('message'), one definition per branch of the handler              *)
(***************************************************************************)
\* if (msg.type === 'hello' && msg.role) { ws.role = ...; return; }
OnHello(c, m) ==
  /\ conn' = [conn EXCEPT ![c].role = m.role]
  /\ out' = NoOut
  /\ UNCHANGED rooms

\* if (msg.type === 'join') { ... }
OnJoin(c, m) ==
  LET nextRole == IF m.role # "none" THEN m.role ELSE conn[c].role
      nextRoom == IF m.room # "none" THEN m.room ELSE conn[c].room
      cn == [conn EXCEPT ![c].role = nextRole, ![c].room = nextRoom]
      rs == AddToRoom(RemoveFromRoom(rooms, c, conn[c].room), c, nextRole, nextRoom)
      o1 == SendTo(NoOut, cn, c, PresenceFrame(rs, nextRoom))
      o2 == broadcastPresence(o1, cn, rs, nextRoom)
      o3 == IF HasMap(rs[nextRoom].lastMap)
              THEN SendTo(o2, cn, c, MapSyncFrame(rs, nextRoom))
              ELSE o2
  IN /\ conn' = cn
     /\ rooms' = rs
     /\ out' = o3

\* if (ws.role === 'host' && msg.type === 'map:set' && Array.isArray(msg.map))
OnMapSet(c, m) ==
  LET rm == conn[c].room
      rs == [rooms EXCEPT ![rm].lastMap = m.map]
      o1 == broadcastToViewers(NoOut, conn, rm, MapSyncPayload(rs, rm), c)
  IN /\ rooms' = rs
     /\ out' = SendTo(o1, conn, c, MapAckFrame(rs, rm))
     /\ UNCHANGED conn

\* if (msg.type === 'map:get' && ws.room)
OnMapGet(c, m) ==
  LET rm == conn[c].room
  IN /\ out' = IF HasMap(rooms[rm].lastMap)
                 THEN SendTo(NoOut, conn, c, MapSyncFrame(rooms, rm))
                 ELSE NoOut
     /\ UNCHANGED <<conn, rooms>>

\* a midi relay that writes to every client of the server but the sender
OnMidi_Everyone(c, m) ==
  LET rm == conn[c].room
  IN /\ out' = SendAll(NoOut, conn, ConnIds \ {c}, MidiFrame(m, rm))
     /\ UNCHANGED <<conn, rooms>>

\* if (msg.type === 'midi' && ws.room): everyone in the room but the sender
OnMidi(c, m) ==
  LET rm == conn[c].room
  IN /\ out' = SendAll(NoOut, conn,
                       (rooms[rm].hosts \cup rooms[rm].viewers) \ {c},
                       MidiFrame(m, rm))
     /\ UNCHANGED <<conn, rooms>>

\* if (ws.role === 'host') broadcastToViewers(ws.room, msg, ws);
OnOther(c, m) ==
  LET rm == conn[c].room
  IN /\ out' = IF conn[c].role = "host"
                 THEN broadcastToViewers(NoOut, conn, rm, m, c)
                 ELSE NoOut
     /\ UNCHANGED <<conn, rooms>>

\* frames the handler returns on without any effect: unparsable, ping
OnIgnored(c, m) ==
  /\ out' = NoOut
  /\ UNCHANGED <<conn, rooms>>

Message(c, m) ==
  /\ conn[c].st = "open"
  /\ last' = Event("message", c, m.type)
  /\ UNCHANGED <<svars, ovars>>
  /\ IF m = BadFrame THEN OnIgnored(c, m)
     ELSE IF m.type = "hello" /\ m.role # "none" THEN OnHello(c, m)
     ELSE IF m.type = "join" THEN OnJoin(c, m)
     ELSE IF m.type = "ping" THEN OnIgnored(c, m)
     ELSE IF conn[c].role = "host" /\ m.type = "map:set" /\ m.map.arr
       THEN OnMapSet(c, m)
     ELSE IF m.type = "map:get" THEN OnMapGet(c, m)
     ELSE IF m.type = "midi" THEN OnMidi(c, m)
     ELSE OnOther(c, m)

(***************************************************************************)
(* ws.on('close')                                                          *)
(***************************************************************************)
Close(c) ==
  /\ conn[c].st \in {"open", "terminated"}
  /\ LET cn == [conn EXCEPT ![c] = ClosedConn]
         rs == RemoveFromRoom(rooms, c, conn[c].room)
     IN /\ conn' = cn
        /\ rooms' = rs
        /\ out' = broadcastPresence(NoOut, cn, rs, conn[c].room)
  /\ last' = Event("close", c, "none")
  /\ UNCHANGED <<svars, ovars>>

\* history of the ops batches that reached the host relay branch
LogOps(c, m) ==
  /\ (m.type = "ops" => LogSize(opsLog) < MaxOpsLog)
  /\ opsLog' = IF conn[c].role = "host" /\ m.type = "ops"
                 THEN [opsLog EXCEPT ![conn[c].room] = Append(@, m.ops)]
                 ELSE opsLog

Accept(c, r, rm) ==
  /\ \E o \in Origins : Connection(c, r, rm, o)
  /\ UNCHANGED aux
Handle(c, m) == Message(c, m) /\ UNCHANGED aux
HandleLogged(c, m) ==
  /\ Message(c, m)
  /\ LogOps(c, m)
  /\ UNCHANGED <<hostSeq, roomSeq, acceptedMap, allowEnv, hbvars>>
Drop(c) == Close(c) /\ UNCHANGED aux

(***************************************************************************)
(* server-side heartbeat: hbInterval and the room-scoped interval          *)
(***************************************************************************)
\* the sockets the loop of a timer visits
TimerSockets(t) ==
  IF t = "global"
    THEN {c \in ConnIds : conn[c].st \in {"open", "terminated"}}   \* wss.clients
    ELSE UNION {rooms[rm].hosts \cup rooms[rm].viewers : rm \in Rooms}

\* the callback of timer t: if (ws.isAlive === false) { ws.terminate();
\* continue; } ws.isAlive = false; ws.ping();  It runs when every open
\* socket has answered the ping of the timer's previous tick.
Heartbeat(t) ==
  /\ \A c \in ConnIds :
        conn[c].st = "open" => \A i \in 1..Len(pinged[c]) : pinged[c][i] # t
  /\ LET S == {c \in TimerSockets(t) : conn[c].st = "open"}
     IN /\ conn' = [c \in ConnIds |->
                     IF c \in S /\ ~isAlive[c]
                       THEN [conn[c] EXCEPT !.st = "terminated"]
                       ELSE conn[c]]
        /\ isAlive' = [c \in ConnIds |->
                         IF c \in S /\ isAlive[c] THEN FALSE ELSE isAlive[c]]
        /\ pinged' = [c \in ConnIds |->
                        IF c \in S /\ isAlive[c]
                          THEN Append(pinged[c], t) ELSE pinged[c]]
  /\ out' = NoOut
  /\ last' = Event("tick", 0, t)
  /\ UNCHANGED <<rooms, opsLog, hostSeq, roomSeq, acceptedMap, allowEnv, roomHb>>
  /\ UNCHANGED <<svars, ovars>>

HbTick == Heartbeat("global")

\* if (ENABLE_ROOM_HEARTBEAT) setInterval(...)
RoomHbTick == roomHb /\ Heartbeat("room")

\* ws.on('pong', () => { ws.isAlive = true; }): the pong of the oldest
\* unanswered ping arrives
Pong(c) ==
  /\ conn[c].st = "open"
  /\ pinged[c] # <<>>
  /\ isAlive' = [isAlive EXCEPT ![c] = TRUE]
  /\ pinged' = [pinged EXCEPT ![c] = Tail(@)]
  /\ out' = NoOut
  /\ last' = Event("pong", c, "none")
  /\ UNCHANGED <<conn, rooms, opsLog, hostSeq, roomSeq, acceptedMap, allowEnv, roomHb>>
  /\ UNCHANGED <<svars, ovars>>

\* the close event of a socket, terminated or closed by its peer; the
\* WebSocket object and its isAlive flag are gone
Hangup(c) ==
  /\ Close(c)
  /\ isAlive' = [isAlive EXCEPT ![c] = TRUE]
  /\ pinged' = [pinged EXCEPT ![c] = <<>>]
  /\ UNCHANGED <<opsLog, hostSeq, roomSeq, acceptedMap, allowEnv, roomHb>>

\* the most frames one handler sends to one socket: hello, presence,
\* map:sync and the presence broadcast of the connection handler
OutLen == 4

\* JSON.parse(ev.data) of a frame the relay has sent: its type tag, whether
\* it has a payload field, whether its map field is an array
Parsed(f) ==
  InFrame(f.k,
          IF f.k \in {"info", "midi"} THEN "obj" ELSE "none",
          f.k = "map:sync" /\ f.map.arr)

\* the message listener of the page behind connection d runs for the i-th
\* frame the last handler sent to d
Deliver(d, i) ==
  /\ conn[d].st = "open"
  /\ i \in 1..Len(out[d])
  /\ lastIn' = Parsed(out[d][i])
  /\ calls' = MessageCalls(conn[d].role, Parsed(out[d][i]))
  /\ lastInOn' = 0
  /\ UNCHANGED <<svars, rvars, jvars, pvars, evars>>

\* sendOps(ops) of the host page behind connection c, and the relay's
\* handling of the frame
SendOps(c, b) ==
  /\ conn[c].st = "open"
  /\ conn[c].role = "host"
  /\ hostSeq[c] < MaxSeq
  /\ hostSeq' = [hostSeq EXCEPT ![c] = @ + 1]
  /\ Message(c, StampedOps(b, hostSeq[c] + 1))
  /\ roomSeq' = [roomSeq EXCEPT ![conn[c].room] = hostSeq[c] + 1]
  /\ UNCHANGED <<opsLog, acceptedMap, allowEnv, hbvars>>

\* the connection closes and its page, with its seq counter, is gone
DropPage(c) ==
  /\ Close(c)
  /\ hostSeq' = [hostSeq EXCEPT ![c] = 0]
  /\ UNCHANGED <<opsLog, roomSeq, acceptedMap, allowEnv, hbvars>>

\* a message is handled and the map the relay accepted, if any, is noted
HandleMap(c, m) ==
  /\ Message(c, m)
  /\ acceptedMap' =
       IF conn[c].role = "host" /\ m.type = "map:set" /\ m.map.arr
         THEN [acceptedMap EXCEPT ![conn[c].room] = m.map]
         ELSE acceptedMap
  /\ UNCHANGED <<opsLog, hostSeq, roomSeq, allowEnv, hbvars>>

\* the relay process is restarted: every socket is gone and the module is
\* loaded again (const rooms = new Map())
Restart ==
  /\ conn' = [c \in ConnIds |-> ClosedConn]
  /\ rooms' = [rm \in Rooms |-> [hosts |-> {}, viewers |-> {}, lastMap |-> NullMap]]
  /\ out' = NoOut
  /\ last' = Event("restart", 0, "none")
  /\ UNCHANGED aux
  /\ UNCHANGED <<svars, ovars>>

\* membership, map, midi, ping, unknown and unparsable traffic
NextRelay ==
  \/ \E c \in ConnIds, r \in Roles, rm \in Rooms : Accept(c, r, rm)
  \/ \E c \in ConnIds, m \in MembershipMsgs \cup OtherMsgs : Handle(c, m)
  \/ \E c \in ConnIds : Drop(c)

\* membership, ops and probe traffic
NextRelayOps ==
  \/ \E c \in ConnIds, r \in Roles, rm \in Rooms : Accept(c, r, rm)
  \/ \E c \in ConnIds, m \in MembershipMsgs \cup OpsMsgs \cup ProbeMsgs :
        Handle(c, m)
  \/ \E c \in ConnIds : Drop(c)

\* membership and ops traffic, with the ops history recorded
NextRelayLog ==
  \/ \E c \in ConnIds, r \in Roles, rm \in Rooms : Accept(c, r, rm)
  \/ \E c \in ConnIds, m \in MembershipMsgs \cup OpsMsgs : HandleLogged(c, m)
  \/ \E c \in ConnIds : Drop(c)

\* a page whose document is DefaultDom
InitPage ==
  /\ dom = DefaultDom
  /\ orig = [e \in DocIds |-> Attrs(DefaultDom[e])]
  /\ skipped = 0
  /\ applied = 0

\* no message event, jog turn, reattach poll or probe has happened yet
InitListeners ==
  /\ lastIn = NoFrame
  /\ calls = <<>>
  /\ lastInOn = 0
  /\ jogIn = 0
  /\ jogOut = 0
  /\ tries = 0
  /\ ackInstalled = 0
  /\ nProbes = 0
  /\ nAcks = 0

InitOther == InitListeners /\ InitPage

\* a relay started with or without ROOM_HEARTBEAT=1
InitHb ==
  /\ InitSession
  /\ role = "viewer"
  /\ conn = [c \in ConnIds |-> ClosedConn]
  /\ rooms = [rm \in Rooms |-> [hosts |-> {}, viewers |-> {}, lastMap |-> NullMap]]
  /\ out = NoOut
  /\ last = Event("init", 0, "none")
  /\ opsLog = [rm \in Rooms |-> <<>>]
  /\ hostSeq = [c \in ConnIds |-> 0]
  /\ roomSeq = [rm \in Rooms |-> 0]
  /\ acceptedMap = [rm \in Rooms |-> NullMap]
  /\ allowEnv = {}
  /\ isAlive = [c \in ConnIds |-> TRUE]
  /\ pinged = [c \in ConnIds |-> <<>>]
  /\ roomHb \in BOOLEAN
  /\ InitOther

\* a relay started with or without an origin named by the environment
InitEnv ==
  /\ InitSession
  /\ role = "viewer"
  /\ conn = [c \in ConnIds |-> ClosedConn]
  /\ rooms = [rm \in Rooms |-> [hosts |-> {}, viewers |-> {}, lastMap |-> NullMap]]
  /\ out = NoOut
  /\ last = Event("init", 0, "none")
  /\ opsLog = [rm \in Rooms |-> <<>>]
  /\ hostSeq = [c \in ConnIds |-> 0]
  /\ roomSeq = [rm \in Rooms |-> 0]
  /\ acceptedMap = [rm \in Rooms |-> NullMap]
  /\ allowEnv \in {{}, {"https://staging.example"}}
  /\ isAlive = [c \in ConnIds |-> TRUE]
  /\ pinged = [c \in ConnIds |-> <<>>]
  /\ roomHb = FALSE
  /\ InitOther

Init == InitSession /\ InitRelay /\ InitOther

\* the relay runs on its own; the session half stays in one initial state
InitR == Init /\ role = "viewer"

NextSession ==
  \/ SendRaw
  \/ Send
  \/ WsOpen
  \/ SettleFire
  \/ WsClose
  \/ WsError
  \/ BackoffFire
  \/ PingTick
  \/ ClientClose

SpecSession == Init /\ [][NextSession]_vars

\* a session that cannot reach the relay: no transport ever opens, every
\* probe ends in a close event, round after round
NextProbing ==
  \/ WsCloseWithin(MaxProbeTransports)
  \/ BackoffFireWithin(MaxProbeTransports)
  \/ ClientClose

SpecProbing == Init /\ [][NextProbing]_vars

SpecRelay == InitR /\ [][NextRelay]_vars

\* inbound traffic of both halves: a session on its first transport that
\* receives frames, and the relay receiving membership and unparsable frames
NextInbound ==
  \/ WsOpen
  \/ SettleFire
  \/ \E f \in InFrames : WsMessage(f)
  \/ \E c \in ConnIds, r \in Roles, rm \in Rooms : Accept(c, r, rm)
  \/ \E c \in ConnIds, m \in MembershipMsgs \cup {BadFrame} : Handle(c, m)
  \/ \E c \in ConnIds : Drop(c)

SpecInbound == Init /\ [][NextInbound]_vars

\* membership traffic at a relay with either environment
NextOrigin ==
  \/ \E c \in ConnIds, r \in Roles, rm \in Rooms : Accept(c, r, rm)
  \/ \E c \in ConnIds, m \in MembershipMsgs : Handle(c, m)
  \/ \E c \in ConnIds : Drop(c)

SpecOrigin == InitEnv /\ [][NextOrigin]_vars

\* host pages that stamp their batches, viewers, and pages that go away
NextRelaySeq ==
  \/ \E c \in ConnIds, r \in Roles, rm \in Rooms : Accept(c, r, rm)
  \/ \E c \in ConnIds, b \in Batches : SendOps(c, b)
  \/ \E c \in ConnIds : DropPage(c)

SpecRelaySeq == InitR /\ [][NextRelaySeq]_vars

\* map traffic at a relay that may be restarted
NextRelayRestart ==
  \/ \E c \in ConnIds, r \in Roles, rm \in Rooms : Accept(c, r, rm)
  \/ \E c \in ConnIds, m \in MapSetMsgs \cup JoinMsgs : HandleMap(c, m)
  \/ \E c \in ConnIds : Drop(c)
  \/ Restart

SpecRelayRestart == InitR /\ [][NextRelayRestart]_vars

\* a viewer page whose session connects and reconnects while probes arrive
NextProbeAck ==
  \/ WsOpen
  \/ SettleFire
  \/ WsClose
  \/ BackoffFire
  \/ ReattachTick
  \/ ProbeArrives

SpecProbeAck == InitR /\ [][NextProbeAck]_vars

\* connections that answer pings, and the heartbeat timers
NextHeartbeat ==
  \/ \E c \in ConnIds, r \in Roles, rm \in Rooms : Accept(c, r, rm)
  \/ \E c \in ConnIds : Hangup(c)
  \/ HbTick
  \/ RoomHbTick
  \/ \E c \in ConnIds : Pong(c)

SpecHeartbeat == InitHb /\ [][NextHeartbeat]_vars

\* ops traffic through the relay, up to the listeners of the pages
NextRelayDeliver ==
  \/ \E c \in ConnIds, r \in Roles, rm \in Rooms : Accept(c, r, rm)
  \/ \E c \in ConnIds, m \in OpsMsgs : Handle(c, m)
  \/ \E c \in ConnIds : Drop(c)
  \/ \E d \in ConnIds, i \in 1..OutLen : Deliver(d, i)

SpecRelayDeliver == InitR /\ [][NextRelayDeliver]_vars

\* a session that is sent the relay's greeting on every transport that opens
NextGreeting ==
  \/ WsOpen
  \/ SettleFire
  \/ WsClose
  \/ BackoffFire
  \/ \E f \in GreetingFrames : ProbeOnMessage(f)
  \/ \E f \in GreetingFrames : WsMessage(f)

SpecGreeting == Init /\ [][NextGreeting]_vars

\* a page with any of the documents, to which batches are applied
InitEngine ==
  /\ InitSession
  /\ role = "viewer"
  /\ InitRelay
  /\ InitListeners
  /\ dom \in Doms
  /\ orig = [e \in DocIds |-> Attrs(dom[e])]
  /\ skipped = 0
  /\ applied = 0

EBatches == EBatchesOf(MaxBatch) \ {<<>>}

NextEngine == \E ops \in EBatches : ApplyOps(ops)

SpecEngine == InitEngine /\ [][NextEngine]_vars

\* the jog wheel sends relative 7-bit values
NextJog == \E v \in SevenBit : JogTurn(v)

SpecJog == InitR /\ [][NextJog]_vars

SpecRelayOps == InitR /\ [][NextRelayOps]_vars

\* the event loop keeps running handlers as long as there are events
SpecRelayOpsFair == SpecRelayOps /\ WF_vars(NextRelayOps)

SpecRelayLog == InitR /\ [][NextRelayLog]_vars

(***************************************************************************)
(*                 C L I E N T   S E S S I O N   C L A I M S               *)
(***************************************************************************)
\* the session has a connected transport: client.socket is set and OPEN
Connected == socket # 0 /\ cur.state = "open"

\* this step makes a transport the session's connected transport
BecomesConnected == ~Connected /\ Connected'

\* the frames this step handed to ws.send
NewOnWire == SubSeq(wire', Len(wire) + 1, Len(wire'))

IsCallerFrame(e) == e.f.n > 0

\* C1: a frame submitted while no transport is open is appended to the queue
\* (nothing is written, nothing is lost), and the step at which a transport
\* next becomes the session's open transport writes all queued frames to that
\* transport, in queue order, and leaves the queue empty.
C1_QueuedThenFlushedOnOpen ==
  [][ /\ (nSubmitted' # nSubmitted /\ ~Connected) =>
            /\ wire' = wire
            /\ Len(sendQueue') = Len(sendQueue) + 1
            /\ SubSeq(sendQueue', 1, Len(sendQueue)) = sendQueue
            /\ sendQueue'[Len(sendQueue')].n = nSubmitted'
      /\ BecomesConnected =>
            /\ sendQueue' = <<>>
            /\ SelectSeq(NewOnWire, IsCallerFrame)
                 = [i \in 1..Len(sendQueue) |-> OnWire(cur'.id, sendQueue[i])]
    ]_vars

\* C2: every step at which a transport becomes the session's connected
\* transport (after probing as well as on a reconnect) sends hello and then
\* join on that transport and flushes the outbound queue.
C2_HelloJoinFlushOnConnect ==
  [][ BecomesConnected =>
        /\ Len(NewOnWire) >= 2
        /\ NewOnWire[1] = OnWire(cur'.id, Hello)
        /\ NewOnWire[2] = OnWire(cur'.id, Join)
        /\ sendQueue' = <<>>
    ]_vars

\* C3: once a candidate has been chosen it stays the chosen one, and every
\* transport created afterwards is a direct dial of that candidate (no probe
\* of any candidate, the earlier ones included).
C3_ChosenEndpointReused ==
  [][ chosen # 0 =>
        /\ chosen' = chosen
        /\ (nTrans' # nTrans =>
              /\ cur'.cand = chosen
              /\ ~cur'.probe
              /\ cur'.wired)
    ]_vars

\* p1 closed within the settle window, p2 settled, and a later reconnect is
\* open on p2
C3_Witness ==
  /\ chosen = 2
  /\ nTrans >= 4
  /\ cur.cand = 2
  /\ ~cur.probe
  /\ cur.state = "open"

\* this step is the close of a probe transport that has not settled
UnsettledProbeCloses ==
  /\ cur.probe
  /\ ~cur.settled
  /\ cur.state \in {"connecting", "open"}
  /\ ~(cur'.id = cur.id /\ cur'.state = cur.state)
  /\ ~(cur'.id = cur.id /\ cur'.state = "open")
  /\ ~(cur'.id = cur.id /\ cur'.settled)

\* C4: a candidate becomes the chosen endpoint only at the expiry of its
\* settle timer, with its transport opened and still open; a probe transport
\* that closes before that is not chosen, and the next candidate in list
\* order is tried (after the last one, a retry is scheduled).
C4_ChosenOnlyAfterSettle ==
  [][ /\ (chosen' # chosen =>
            /\ cur.probe
            /\ cur.state = "open"
            /\ cur.settleTimer
            /\ cur'.id = cur.id
            /\ cur'.state = "open"
            /\ chosen' = cur.cand)
      /\ (UnsettledProbeCloses =>
            /\ chosen' = chosen
            /\ IF cur.cand < Len(PATH_CANDIDATES)
                 THEN /\ cur'.id = cur.id + 1
                      /\ cur'.probe
                      /\ cur'.state = "connecting"
                      /\ cur'.cand = cur.cand + 1
                 ELSE /\ cur'.id = cur.id
                      /\ cur'.state = "closed"
                      /\ dialTimer')
    ]_vars

\* p1 and p2 closed before settling and p3 has just been accepted
C4_Witness ==
  /\ chosen = 3
  /\ nTrans = 3
  /\ cur.cand = 3
  /\ cur.settled
  /\ cur.state = "open"

(***************************************************************************)
(*                        R E L A Y   C L A I M S                          *)
(***************************************************************************)
Members(rm) == rooms[rm].hosts \cup rooms[rm].viewers

\* the last handler ran for a join frame of a connection whose role is viewer
ViewerJoined ==
  /\ last.ev = "message"
  /\ last.type = "join"
  /\ conn[last.c].role = "viewer"

\* a frame whose type tag is 'ops', the shape of a snapshot
IsOpsFrame(f) == f.k = "ops"

\* the state table section 3 of the specification derives from a room's ops:
\* target -> intensity, 0 standing for an absent (off) target
RECURSIVE FoldOps(_, _)
FoldOps(tbl, ops) ==
  IF ops = <<>> THEN tbl
  ELSE LET o == Head(ops)
       IN FoldOps([tbl EXCEPT ![o.target] = IF o.on THEN o.intensity ELSE 0],
                  Tail(ops))

RECURSIVE FoldLog(_, _)
FoldLog(tbl, log) ==
  IF log = <<>> THEN tbl ELSE FoldLog(FoldOps(tbl, Head(log)), Tail(log))

TableOf(rm) == FoldLog([t \in Targets |-> 0], opsLog[rm])

\* stateToOps of the specification, as a set of operations
StateToOps(tbl) == {Op(t, TRUE, tbl[t]) : t \in {u \in Targets : tbl[u] > 0}}

OpsSet(ops) == {ops[i] : i \in 1..Len(ops)}

\* C5: after any sequence of ops batches, a viewer that joins is sent exactly
\* one snapshot, and its ops are the targets that are on in the room's table
\* with their latest intensity.
C5_SnapshotOnJoin ==
  ViewerJoined =>
    LET snaps == SelectSeq(out[last.c], IsOpsFrame)
    IN /\ Len(snaps) = 1
       /\ OpsSet(snaps[1].payload.ops) = StateToOps(TableOf(conn[last.c].room))

\* C7: an open connection is in the sets of the room its room key names and
\* of no other room, and in exactly one of that room's two sets; a connection
\* that is not open is in no set of any room.
C7_Membership ==
  \A c \in ConnIds :
    IF conn[c].st = "open"
      THEN /\ \A rm \in Rooms : (c \in Members(rm)) <=> (rm = conn[c].room)
           /\ ~(c \in rooms[conn[c].room].hosts /\ c \in rooms[conn[c].room].viewers)
      ELSE \A rm \in Rooms : c \notin Members(rm)

\* connection 1 has closed, and connection 2 has just joined room A as a host
C7_Witness ==
  /\ conn[1].st = "closed"
  /\ conn[2].st = "open"
  /\ last = Event("message", 2, "join")
  /\ conn[2].room = "A"
  /\ 2 \in rooms["A"].hosts
  /\ Members("default") = {}

\* the last handler relayed an ops batch of a host
HostOpsRelayed ==
  /\ last.ev = "message"
  /\ last.type = "ops"
  /\ conn[last.c].role = "host"

\* C8: an ops batch of a host reaches exactly the open connections whose role
\* is viewer and whose room is the host's room, once each; the sender, hosts
\* and connections of other rooms get nothing.
C8_FanOutScope ==
  HostOpsRelayed =>
    \A c \in ConnIds :
      IF /\ c # last.c
         /\ conn[c].st = "open"
         /\ conn[c].role = "viewer"
         /\ conn[c].room = conn[last.c].room
        THEN /\ Len(out[c]) = 1
             /\ out[c][1].payload.type = "ops"
             /\ out[c][1].room = conn[last.c].room
        ELSE out[c] = <<>>

\* a host's batch has just been delivered to the viewer sharing its room
C8_Witness ==
  /\ HostOpsRelayed
  /\ \E c \in ConnIds : c # last.c /\ Len(out[c]) = 1

\* C10: the table holds no entry that is off: a viewer joining after a host
\* sent on for pad_1 (intensity 1) is sent a snapshot with pad_1 on at 1, and
\* a viewer joining after the host then sent off for pad_1 is sent a snapshot
\* with an empty ops list.
C10_OffRemovesEntry ==
  ViewerJoined =>
    LET log == opsLog[conn[last.c].room]
        on1 == <<Op("pad_1", TRUE, 10)>>
        off1 == <<Op("pad_1", FALSE, 0)>>
        snaps == SelectSeq(out[last.c], IsOpsFrame)
    IN /\ (log = <<on1>> => Len(snaps) = 1 /\ snaps[1].payload.ops = on1)
       /\ (log = <<on1, off1>> => Len(snaps) = 1 /\ snaps[1].payload.ops = <<>>)

(***************************************************************************)
(*                 R E L A Y   C L A I M S :  M A P S                      *)
(***************************************************************************)
\* a frame that hands a mapping table to its receiver, bare or info-wrapped
CarriesMapSync(f) ==
  \/ f.k = "map:sync"
  \/ f.k = "info" /\ f.payload.type = "map:sync"

IsMapSync(f) == f.k = "map:sync"
IsMapAck(f) == f.k = "map:ack"
IsPresence(f) == f.k = "presence"

\* ws.js message listener, viewer map handling: applyMap(parsed.map) runs
\* for a frame whose own type is map:sync and whose map is an array
ViewerApplies(f) == f.k = "map:sync" /\ f.map.arr

\* C11: a map:set of a host whose map equals the map the room already holds
\* changes nothing and sends nothing but the ack to the host: no viewer is
\* sent the map a second time.
C11_MapChangeDetection ==
  [][ \A c \in ConnIds, m \in MapSetMsgs :
        (/\ Handle(c, m)
         /\ conn[c].role = "host"
         /\ m.map.arr
         /\ m.map = rooms[conn[c].room].lastMap) =>
          /\ rooms' = rooms
          /\ \A d \in ConnIds \ {c} : SelectSeq(out'[d], CarriesMapSync) = <<>>
          /\ Len(SelectSeq(out'[c], IsMapAck)) = 1
    ]_vars

\* the last handler stored the map of a host's map:set (it sent the ack)
MapSetAccepted ==
  /\ last.ev = "message"
  /\ last.type = "map:set"
  /\ SelectSeq(out[last.c], IsMapAck) # <<>>

\* C12: after a host's map:set has been stored, every open viewer of the
\* host's room has been sent a frame of type map:sync with the stored map,
\* a frame the viewer session applies as its map.
C12_ViewersGetMapSync ==
  MapSetAccepted =>
    \A d \in ConnIds :
      (/\ conn[d].st = "open"
       /\ conn[d].role = "viewer"
       /\ conn[d].room = conn[last.c].room) =>
        \E i \in 1..Len(out[d]) :
          /\ IsMapSync(out[d][i])
          /\ out[d][i].map = rooms[conn[d].room].lastMap
          /\ ViewerApplies(out[d][i])

\* C13: a map:set of a host with an array map is answered with exactly one
\* map:ack to that host, which carries a map key and the number of viewers
\* of the host's room; any other map:set is not stored and nobody is acked.
C13_MapAck ==
  [][ \A c \in ConnIds, m \in MapSetMsgs :
        Handle(c, m) =>
          LET rm == conn[c].room
              acks == SelectSeq(out'[c], IsMapAck)
          IN IF conn[c].role = "host" /\ m.map.arr
               THEN /\ rooms'[rm].lastMap = m.map
                    /\ Len(acks) = 1
                    /\ acks[1].key # "none"
                    /\ acks[1].viewers = Cardinality(rooms'[rm].viewers)
                    /\ \A d \in ConnIds \ {c} :
                          SelectSeq(out'[d], IsMapAck) = <<>>
               ELSE /\ rooms' = rooms
                    /\ \A d \in ConnIds : SelectSeq(out'[d], IsMapAck) = <<>>
    ]_vars

\* the last handler ran for a new connection or for a join frame
ConnectedOrJoined ==
  \/ last.ev = "connect"
  \/ last.ev = "message" /\ last.type = "join"

\* C14: a connection that connects or joins is sent map:sync (once, with the
\* room's table) exactly when it is a viewer and the table of its room is
\* non-empty; a host, or a joiner of a room without a table, is sent none.
C14_MapReplayOnJoin ==
  ConnectedOrJoined =>
    LET c == last.c
        syncs == SelectSeq(out[c], IsMapSync)
    IN IF conn[c].role = "viewer" /\ HasMap(rooms[conn[c].room].lastMap)
         THEN syncs = <<MapSyncFrame(rooms, conn[c].room)>>
         ELSE syncs = <<>>

\* C15: a join and a close are each followed by a presence frame, with the
\* sizes of the host and viewer sets after the change, to every open member
\* of the room joined, respectively of the room the closed connection was in.
C15_PresenceOnChange ==
  [][ \A c \in ConnIds :
        /\ (\E m \in JoinMsgs : Handle(c, m)) =>
              \A d \in ConnIds :
                (conn'[d].st = "open" /\ conn'[d].room = conn'[c].room) =>
                  \E i \in 1..Len(out'[d]) :
                    out'[d][i] = PresenceFrame(rooms', conn'[c].room)
        /\ Drop(c) =>
              \A d \in ConnIds :
                (conn'[d].st = "open" /\ conn'[d].room = conn[c].room) =>
                  \E i \in 1..Len(out'[d]) :
                    out'[d][i] = PresenceFrame(rooms', conn[c].room)
    ]_vars

\* a connection has closed and the member it left behind has been sent the
\* presence of the room
C15_Witness ==
  /\ last.ev = "close"
  /\ \E d \in ConnIds :
       /\ conn[d].st = "open"
       /\ out[d] = <<PresenceFrame(rooms, conn[d].room)>>
       /\ Cardinality(Members(conn[d].room)) = 1

(***************************************************************************)
(*          C L I E N T   S E S S I O N   C L A I M S,  continued          *)
(***************************************************************************)
\* this step is the unsettled close of the probe of the last candidate
AllCandidatesFailed ==
  /\ cur.probe
  /\ ~cur.wired
  /\ cur.cand = Len(PATH_CANDIDATES)
  /\ cur.state \in {"connecting", "open"}
  /\ cur'.state = "closed"

\* C16: when the last candidate fails too, a dial is scheduled after
\* min(RECONNECT_BASE_MS * 2^n, RECONNECT_MAX_MS), n being the number of probe
\* rounds that failed before this one; the wait never exceeds the cap, a
\* scheduled dial is only ever consumed by dialling, and with no endpoint
\* chosen that dial probes the first candidate again.
C16_BackoffThenRestart ==
  [][ /\ AllCandidatesFailed =>
            /\ wait' = Min(RECONNECT_BASE_MS
                              * Pow2((nTrans \div Len(PATH_CANDIDATES)) - 1),
                           RECONNECT_MAX_MS)
            /\ wait' <= RECONNECT_MAX_MS
            /\ dialTimer'
      /\ (dialTimer /\ ~dialTimer') =>
            /\ nTrans' = nTrans + 1
            /\ cur'.state = "connecting"
            /\ chosen = 0 => cur'.probe /\ cur'.cand = 1
    ]_vars

\* five rounds of probing have failed, the fifth wait was the cap, and the
\* sixth round has started with the first candidate
C16_Witness ==
  /\ chosen = 0
  /\ reconnectAttempts = 5
  /\ wait = RECONNECT_MAX_MS
  /\ nTrans = 5 * Len(PATH_CANDIDATES) + 1
  /\ cur.probe
  /\ cur.cand = 1
  /\ cur.state = "connecting"

\* C17: a WebSocket is created only when the one created before it has
\* closed, or inside the close event of that one; so at no time are two
\* transports of the session connecting or open.
C17_SingleTransport ==
  [][ nTrans' # nTrans =>
        \/ cur.state = "closed"
        \/ /\ WsClose
           /\ cur.probe
           /\ ~cur.settled
    ]_vars

\* the third transport of a session is connecting after two have closed
C17_Witness ==
  /\ nTrans = 3
  /\ chosen = 1
  /\ cur.wired
  /\ cur.state = "connecting"
  /\ ~dialTimer

\* C18: no frame of the caller is handed to ws.send more than once, on any
\* transport.
C18_NoDuplication ==
  \A i, j \in 1..Len(wire) :
    (i < j /\ wire[i].f.n > 0) => wire[i].f.n # wire[j].f.n

\* a frame of the caller went out on an earlier transport, and a later
\* transport has since opened and run its flush
C18_Witness ==
  /\ \E i \in 1..Len(wire) : wire[i].f.n > 0 /\ wire[i].t < cur.id
  /\ ~cur.probe
  /\ cur.state = "open"
  /\ nSubmitted = MaxFrames
  /\ sendQueue = <<>>

\* C19: while the session has a connected transport the heartbeat interval
\* is armed on that transport, and once the transport has closed no
\* heartbeat is armed.
C19_HeartbeatArmed ==
  /\ (Connected /\ ~closedByUs) => pingTimer = cur.id
  /\ cur.state = "closed" => pingTimer = 0

(***************************************************************************)
(*                 R E L A Y   C L A I M S :  P R O B E S                  *)
(***************************************************************************)
IsProbeSummary(f) == f.k = "probe:summary"

\* C20: a probe of a host is eventually followed by a probe:summary sent to
\* that host (unless the host's connection closes first), whether or not a
\* viewer answers.
C20_ProbeSummary ==
  \A c \in ConnIds :
    (last = Event("message", c, "probe") /\ conn[c].role = "host")
      ~> (\/ conn[c].st = "closed"
          \/ SelectSeq(out[c], IsProbeSummary) # <<>>)

(***************************************************************************)
(*        C L I E N T   S E S S I O N   C L A I M S :  F A C A D E         *)
(***************************************************************************)
IsHostOnlyFrame(f) == f.k = "midi_like"

\* C26: a call of send/sendMap by a viewer session returns false and leaves
\* the wire and the queue as they were, whatever the state of the
\* connection, so no host-only frame of a viewer is ever written or queued;
\* a call of sendRaw returns true and adds its frame to the wire or to the
\* queue for either role.
C26_HostOnlySenders ==
  [][ /\ (role = "viewer" /\ Send) =>
            /\ ret' = "false"
            /\ wire' = wire
            /\ sendQueue' = sendQueue
      /\ role = "viewer" =>
            /\ \A i \in 1..Len(wire') : ~IsHostOnlyFrame(wire'[i].f)
            /\ \A i \in 1..Len(sendQueue') : ~IsHostOnlyFrame(sendQueue'[i])
      /\ SendRaw =>
            /\ ret' = "true"
            /\ Len(wire') + Len(sendQueue') = Len(wire) + Len(sendQueue) + 1
    ]_vars

\* a connected viewer has had a sendRaw frame written and a send refused
C26_Witness ==
  /\ role = "viewer"
  /\ Connected
  /\ ret = "false"
  /\ \E i \in 1..Len(wire) : wire[i].f.k = "raw"

\* C29: the frames of the caller appear on the wire in the order they were
\* submitted.
C29_SubmissionOrder ==
  \A i, j \in 1..Len(wire) :
    (i < j /\ wire[i].f.n > 0 /\ wire[j].f.n > 0) => wire[i].f.n < wire[j].f.n

\* C30: once client.close() has been called no WebSocket is created, no
\* transport opens and connected is not reported again.
C30_NothingAfterClose ==
  [][ closedByUs =>
        /\ nTrans' = nTrans
        /\ ~(cur.state # "open" /\ cur'.state = "open")
        /\ ~(status # "connected" /\ status' = "connected")
    ]_vars

(***************************************************************************)
(*                  I N B O U N D   F R A M E S                            *)
(***************************************************************************)
Count(seq, x) == Cardinality({i \in 1..Len(seq) : seq[i] = x})

\* C21: an unparsable frame has no effect: the relay leaves the connection
\* open, changes no connection or room and sends nothing; the session's
\* listener invokes no callback, reports no status and leaves the transport
\* open.
C21_UnparsableIgnored ==
  [][ /\ \A c \in ConnIds :
           Handle(c, BadFrame) =>
             /\ conn' = conn
             /\ conn'[c].st = "open"
             /\ rooms' = rooms
             /\ out' = NoOut
      /\ WsMessage(Unparsable) =>
             /\ calls' = <<>>
             /\ status' = status
             /\ cur' = cur
             /\ cur'.state = "open"
    ]_vars

\* the relay has just been handed an unparsable frame by a member of a room
\* and the connected session has just received one
C21_Witness ==
  /\ last.ev = "message"
  /\ last.type = "unparsable"
  /\ Cardinality(Members(conn[last.c].room)) = 2
  /\ lastIn = Unparsable
  /\ Connected

\* C27: for a frame of type ops the listener invokes onOps once, and before
\* onMessage; for a frame of any other type it does not invoke onOps.
C27_OnOpsFirst ==
  IF lastIn.type = "ops"
    THEN /\ Count(calls, "onOps") = 1
         /\ Count(calls, "onMessage") = 1
         /\ \A i, j \in 1..Len(calls) :
              (calls[i] = "onOps" /\ calls[j] = "onMessage") => i < j
    ELSE Count(calls, "onOps") = 0

\* an ops frame has been received: onOps, then onMessage
C27_Witness ==
  /\ lastIn.type = "ops"
  /\ calls = <<"onOps", "onMessage">>

\* C28: decodeRelative7 maps 0 and 64 to 0, 1..63 to themselves and 65..127
\* to the value minus 128.
C28_DecodeRelative7 ==
  /\ jogIn \in {0, 64} => jogOut = 0
  /\ jogIn \in 1..63 => jogOut = jogIn
  /\ jogIn \in 65..127 => jogOut = jogIn - 128

\* 65 has been decoded to -63
C28_Witness ==
  /\ jogIn = 65
  /\ jogOut = -63

(***************************************************************************)
(*        R E L A Y   C L A I M S :  U N K N O W N   F R A M E S           *)
(***************************************************************************)
\* well-formed frames whose type tag no branch of the handler names
UnknownMsgs == {m \in OtherMsgs : m.type = "custom"}

\* C22: a frame of an unknown type changes no connection and no room and
\* nothing is sent to anybody, whether its sender is a host or a viewer.
C22_UnknownIgnored ==
  [][ \A c \in ConnIds, m \in UnknownMsgs :
        Handle(c, m) =>
          /\ conn' = conn
          /\ rooms' = rooms
          /\ out' = NoOut
    ]_vars

IsOpsRelay(f) == f.k = "info" /\ f.payload.type = "midi_like"

\* C24: every ops frame broadcast to the viewers of a room carries a
\* sequence number greater than the one of the batch relayed for that room
\* before it.
C24_SeqIncreasing ==
  [][ \A c \in ConnIds, b \in Batches :
        SendOps(c, b) =>
          \A d \in ConnIds : \A i \in 1..Len(out'[d]) :
            IsOpsRelay(out'[d][i]) =>
              out'[d][i].payload.seq > roomSeq[conn[c].room]
    ]_vars

\* C25: a viewer that connects to a room for which the relay has accepted a
\* non-empty map, before or after a restart, is sent that map.
C25_MapSurvivesRestart ==
  (/\ last.ev = "connect"
   /\ conn[last.c].role = "viewer"
   /\ HasMap(acceptedMap[conn[last.c].room])) =>
    \E i \in 1..Len(out[last.c]) :
      /\ IsMapSync(out[last.c][i])
      /\ out[last.c][i].map = acceptedMap[conn[last.c].room]

(***************************************************************************)
(*        R E L A Y   C L A I M S :  R O L E S,  P R E S E N C E,  R O O M S *)
(***************************************************************************)
\* C33: an open connection is in the host set of its room exactly when its
\* role is host, and in the viewer set exactly when its role is not host.
C33_RoleSetConsistency ==
  \A c \in ConnIds :
    conn[c].st = "open" =>
      /\ (c \in rooms[conn[c].room].hosts) <=> (conn[c].role = "host")
      /\ (c \in rooms[conn[c].room].viewers) <=> (conn[c].role # "host")

HostCount(rs, rm) == Cardinality(rs[rm].hosts)
ViewerCount(rs, rm) == Cardinality(rs[rm].viewers)

\* C34: whenever an event changes the host or viewer count of the room an
\* open connection is in, or puts the connection into a room, the last
\* presence frame the connection is sent for that event reports the counts
\* of that room after the event; so the most recent presence frame of every
\* open connection always reports the current counts of its room.
C34_PresenceConverges ==
  [][ \A d \in ConnIds :
        LET rm == conn'[d].room
            ps == SelectSeq(out'[d], IsPresence)
        IN (/\ conn'[d].st = "open"
            /\ \/ conn[d].st # "open"
               \/ conn[d].room # rm
               \/ HostCount(rooms', rm) # HostCount(rooms, rm)
               \/ ViewerCount(rooms', rm) # ViewerCount(rooms, rm)) =>
             /\ ps # <<>>
             /\ ps[Len(ps)] = PresenceFrame(rooms', rm)
    ]_vars

\* the map and midi messages of C40
RoomScopedMsgs == {m \in OtherMsgs : m.type \in {"map:set", "map:get", "midi"}}

\* a frame that carries a map, an acknowledgement of one, or a midi message
IsRoomScopedFrame(f) ==
  \/ f.k \in {"map:sync", "map:ack", "midi"}
  \/ f.k = "info" /\ f.payload.type = "map:sync"

\* C40: handling a map:set, map:get or midi message of a connection of room
\* A changes neither the stored map nor the member sets of another room and
\* delivers no map:sync, map:ack or midi frame to a connection whose room is
\* not A.
C40_RoomIsolation ==
  [][ \A c \in ConnIds, m \in RoomScopedMsgs :
        Handle(c, m) =>
          /\ \A rm \in Rooms \ {conn[c].room} : rooms'[rm] = rooms[rm]
          /\ \A d \in ConnIds :
                conn'[d].room # conn[c].room =>
                  \A i \in 1..Len(out'[d]) : ~IsRoomScopedFrame(out'[d][i])
    ]_vars

\* a host's map:set has been handled and acknowledged while a connection of
\* another room is open and has been sent nothing
C40_Witness ==
  /\ last.ev = "message"
  /\ last.type = "map:set"
  /\ conn[last.c].st = "open"
  /\ \E i \in 1..Len(out[last.c]) : IsMapAck(out[last.c][i])
  /\ HasMap(rooms[conn[last.c].room].lastMap)
  /\ \E d \in ConnIds :
       /\ conn[d].st = "open"
       /\ conn[d].room # conn[last.c].room
       /\ out[d] = <<>>
       /\ ~HasMap(rooms[conn[d].room].lastMap)

(***************************************************************************)
(*          C L I E N T   S E S S I O N   C L A I M S,  part three         *)
(***************************************************************************)
\* C36: whenever a transport is the session's connected transport the
\* reconnect attempt counter is zero, so that the delay scheduled when it
\* closes is the base delay.
C36_CounterZeroWhenConnected ==
  Connected => reconnectAttempts = 0

(***************************************************************************)
(*                 O P S   E N G I N E   C L A I M S                       *)
(***************************************************************************)
\* C38: an element that is not lit, whether it has never been lit or its
\* last light op had on:false, has the fill, opacity and filter it had when
\* the page loaded.
C38_LightRoundTrip ==
  \A e \in DocIds :
    dom[e].lit = "undefined" => Attrs(dom[e]) = orig[e]

\* some spelling of the target names an element of the document
KnownTarget(id) == \E e \in DocIds : Decode(e) = Decode(id)

\* the op is a light op on an element of the document
Effective(op) == op.type = "light" /\ KnownTarget(op.target)

\* C39: on every document a page reaches, applyOps leaves the document as
\* the batch without its light ops on unknown targets and without its ops of
\* unknown type would leave it: such an op changes nothing and the other ops
\* are applied in their order.
C39_UnknownSkipped ==
  \A ops \in EBatches :
    applyOps(dom, ops) = applyOps(dom, SelectSeq(ops, Effective))

\* a batch of one op that was passed over and one that was applied has been
\* handled: the jog is lit and the pad is as it was
C39_Witness ==
  /\ skipped = 1
  /\ applied = 1
  /\ dom[JogId].lit = "1"
  /\ dom[JogId].filter = GLOW
  /\ dom[PadId].lit = "undefined"
  /\ Attrs(dom[PadId]) = orig[PadId]

(***************************************************************************)
(*          C L I E N T   S E S S I O N   C L A I M S,  inbound            *)
(***************************************************************************)
\* C31: the last frame that arrived on the session's connected transport,
\* if it is parsable, was handed to onMessage once, and to applyMap when it
\* is a map:sync with an array for a viewer; also when it arrived before the
\* settle window of that transport ended.
C31_NoInboundLost ==
  (Connected /\ lastInOn = socket /\ ParseOk(lastIn)) =>
    /\ Count(calls, "onMessage") = 1
    /\ (role = "viewer" /\ HasMapForViewer(lastIn)) => Count(calls, "applyMap") = 1

\* the frame hands an ops message of a host to its receiver
CarriesOps(f) == f.k = "ops" \/ (f.k = "info" /\ f.payload.type = "ops")

\* C32: when the page of a viewer handles the frame by which the relay passes
\* on an ops frame of a host, its listener sees a frame of type ops: onOps
\* runs once and onMessage is handed that frame.
C32_OpsEndToEnd ==
  [][ \A d \in ConnIds, i \in 1..OutLen :
        (Deliver(d, i) /\ conn[d].role = "viewer" /\ CarriesOps(out[d][i])) =>
          /\ lastIn'.type = "ops"
          /\ Count(calls', "onOps") = 1
          /\ Count(calls', "onMessage") = 1
    ]_vars

(***************************************************************************)
(*                 R E L A Y   C L A I M S :  H E A R T B E A T            *)
(***************************************************************************)
\* C35: no socket whose pongs arrive before the next tick of the timer that
\* sent the ping is terminated by a heartbeat, with or without
\* ROOM_HEARTBEAT=1.
C35_NoTerminationWhenAnswering ==
  \A c \in ConnIds : conn[c].st # "terminated"

(***************************************************************************)
(*                 V I E W E R   P A G E   C L A I M S                     *)
(***************************************************************************)
\* C37: the viewer page has sent one probe:ack for every probe frame its
\* connected transport has received, whichever transport that was.
C37_EveryProbeAcked ==
  nAcks = nProbes

====
